---- MODULE Spec2Model ----
(***************************************************************************)
(* The command-dispatch engine of allm: the backend dispatcher             *)
(* (client.rs, run_backend_loop), its five inbound queues, the per-call    *)
(* reply conduits, and the Mistral provider adapter (providers/mistral.rs, *)
(* run_mistral_loop).                                                      *)
(*                                                                         *)
(* Callers are modelled at the level of the AllmHand senders (lib.rs):     *)
(* each AllmBackend method is one send on one queue.  A reply conduit is   *)
(* identified by the number of the call that created it.                   *)
(***************************************************************************)
EXTENDS Integers, Sequences, FiniteSets, TLC

\* ------------------------------------------------------------------ bounds

\* Number of API calls made by callers in one execution.
MaxCmds == 3

CmdIds == 1..MaxCmds

\* ------------------------------------------------------------ program data

\* enum Provider (the first variants, by discriminant)
MistralAi == 0
OpenAI == 1
Anthropic == 2
Providers == {MistralAi, OpenAI, Anthropic}

\* mutant: the message is built from the model's name, not the provider
DebugFmtModelName(p) == "mistral-small-latest"

\* #[derive(Debug)] on Provider: the variant's name
DebugFmt(p) ==
  CASE p = MistralAi -> "MistralAi"
    [] p = OpenAI -> "OpenAI"
    [] p = Anthropic -> "Anthropic"

\* default_model_info().name
DefaultModelName == "mistral-small-latest"

\* Model names callers pass, prompts, secrets
Models == {"m1", "m2"}
Prompts == {"p1"}
NoKey == "None"
InitialKeys == {NoKey, "k0"}

\* Arguments of SetApiKeys: lists of ApiKeySpec (model "" = master)
ApiKeySpec(p, m, k) == [provider |-> p, model |-> m, key |-> k]
KeySpecLists ==
  { <<>>
  , << ApiKeySpec(MistralAi, "", "k1") >>
  , << ApiKeySpec(MistralAi, "m1", "k1"), ApiKeySpec(MistralAi, "m1", "k2") >>
  , << ApiKeySpec(MistralAi, "", "k2"), ApiKeySpec(MistralAi, "m1", "k1") >>
  }

\* Arguments of SetModelFallbackPreference
Pref12 == << <<MistralAi, "m1">>, <<OpenAI, "m2">> >>
PrefLists == { <<>>, Pref12 }

\* What the provider can answer to POST /chat/completions and GET /models
ChatResponses ==
  {"TransportFailure", "NonSuccessStatus", "MalformedBody", "ZeroChoices", "Choices"}
ModelsResponses ==
  {"TransportFailure", "NonSuccessStatus", "MalformedBody", "Catalog"}
HttpResponses == ChatResponses \cup ModelsResponses

\* Result<_, Error> values carried by reply conduits
Ok(tag, msg) == [ok |-> TRUE, tag |-> tag, msg |-> msg]
Err(tag, msg) == [ok |-> FALSE, tag |-> tag, msg |-> msg]

\* ------------------------------------------------------------------- state

VARIABLES
  calls,                  \* what each API call returned to its caller
  reply,                  \* the reply conduit of each call
  send_prompt_q, set_api_keys_q, get_model_lists_q, kill_process_q,
  set_model_fallback_preference_q,   \* AllmFoot receivers' contents
  bpc,                    \* run_backend_loop: "loop", "exiting", "done"
  current_model, api_keys, fallback_preferences,   \* AllmBackendState
  mtx,                    \* MistralClient.tx is alive
  cmd_q,                  \* the adapter's command channel
  mpc,                    \* run_mistral_loop: "recv", "http", "done"
  cur,                    \* the command the adapter is awaiting HTTP for
  master_key, model_keys, \* MistralClientState
  net,                    \* HTTP requests issued per call
  routed,                 \* history: the fallback list in force when the
                          \* dispatcher routed each SendPrompt (read by no action)
  providers, current_index,   \* FailoverSequence
  nexts,                  \* history: next() calls since new() or reset()
  policy,                 \* RetryPolicy
  ret,                    \* the last call on either of them and its result
  hand,                   \* the AllmBackend (with its AllmHand): "held",
                          \* "shutting" (moved into shutdown()), "dropped"
  abandoned               \* the calls whose reply receiver the caller dropped

queues == << send_prompt_q, set_api_keys_q, get_model_lists_q, kill_process_q,
             set_model_fallback_preference_q >>
backend_state == << current_model, api_keys, fallback_preferences >>
adapter == << cmd_q, mpc, cur, master_key, model_keys, net >>
\* FailoverSequence's fields, the RetryPolicy, and what the last call on them returned
failover == << providers, current_index, nexts, policy, ret >>
\* The caller's side: the AllmBackend it holds and the reply receivers it gave up
ends == << hand, abandoned >>
vars == << calls, reply, queues, bpc, backend_state, mtx, adapter, routed, failover, ends >>

\* ---------------------------------------------------------- reply conduits

\* mpsc::unbounded_channel(): a conduit not yet created, open, or with its
\* only sender dropped
NoConduit == [vals |-> <<>>, st |-> "none"]

\* reply.send(v): the value is queued on the conduit; with the receiver gone
\* the send returns the value in an Err, which every caller of send discards
ReplySend(r, id, v) ==
  IF id \in abandoned THEN r ELSE [r EXCEPT ![id].vals = Append(@, v)]

\* the command (and with it its reply sender) goes out of scope
ReplyDrop(r, id) == [r EXCEPT ![id].st = "closed"]

\* mutant: the result of the send is checked, and a failed send ends the task
AfterSendChecked(id, pc) == IF id \in abandoned THEN "done" ELSE pc
\* `let _ = reply.send(..)`: the result of the send is thrown away, so the
\* task goes on to the position pc whether or not the receiver was there.
AfterSend(id, pc) == pc

\* send then drop: what every handler does with the command it replies to
ReplyOnce(r, id, v) == ReplyDrop(ReplySend(r, id, v), id)

\* mutant: an entry that is already present is kept (entry().or_insert)
InsertIfAbsent(map, key, value) ==
  [x \in DOMAIN map \cup {key} |-> IF x \in DOMAIN map THEN map[x] ELSE value]

\* HashMap::insert
Insert(map, key, value) ==
  [x \in DOMAIN map \cup {key} |-> IF x = key THEN value ELSE map[x]]

\* mutant: the receivers are leaked with everything they hold
DropAllLeak(r, q) == r

RECURSIVE DropAll(_, _)
DropAll(r, q) ==
  IF q = <<>> THEN r ELSE DropAll(ReplyDrop(r, Head(q).reply), Tail(q))

\* ------------------------------------------------------------- Init

\* RetryPolicy::default()
DefaultPolicy == [max_retries |-> 3, backoff_multiplier |-> 2, initial_backoff |-> 100]

NoRet == [op |-> "none", arg |-> 0, val |-> <<>>]

\* No FailoverSequence and no RetryPolicy is ever constructed by the engine
FailoverIdle ==
  /\ providers = <<>>
  /\ current_index = 0
  /\ nexts = 0
  /\ policy = DefaultPolicy
  /\ ret = NoRet

InitWith(provider) ==
  /\ calls = <<>>
  /\ reply = [c \in CmdIds |-> NoConduit]
  /\ send_prompt_q = <<>>
  /\ set_api_keys_q = <<>>
  /\ get_model_lists_q = <<>>
  /\ kill_process_q = <<>>
  /\ set_model_fallback_preference_q = <<>>
  /\ bpc = "loop"
  /\ current_model = [provider |-> provider, name |-> DefaultModelName]
  /\ api_keys = <<>>
  /\ fallback_preferences = <<>>
  /\ mtx = TRUE
  /\ cmd_q = <<>>
  /\ mpc = "recv"
  /\ cur = <<>>
  /\ master_key \in InitialKeys
  /\ model_keys = <<>>
  /\ net = [c \in CmdIds |-> 0]
  /\ routed = [c \in CmdIds |-> [done |-> FALSE, prefs |-> <<>>]]
  /\ FailoverIdle
  /\ hand = "held"
  /\ abandoned = {}

\* AllmBackend::new(mistral_api_key) with AllmBackendState::new and
\* MistralClient::new
Init == InitWith(MistralAi)

\* ------------------------------------------------------ callers (AllmHand)

\* mutant: the send's failure is ignored
FootAliveAlways == TRUE

\* UnboundedSender::send succeeds while the receiver has not been dropped
FootAlive == bpc \notin {"done", "panicked"}

Disconnected == Err("Other", <<"Backend disconnected">>)
AlreadyShutdown == Err("Other", <<"Backend already shutdown">>)
Accepted == Ok("ReplyRx", <<>>)

\* mutant: the newest command is received first
EnqueueFront(q, cmd) == <<cmd>> \o q
\* tx.send(cmd) on an unbounded mpsc channel: the command goes behind those
\* already sent, and recv() takes them from the front.
Enqueue(q, cmd) == Append(q, cmd)

\* The body shared by the five queueing methods: create the conduit, send
\* the command; on failure the command and both conduit ends are dropped
\* and the error is returned instead of the receiver.
Queue(kind, model, q, cmd, failure) ==
  LET id == Len(calls) + 1 IN
  /\ Len(calls) < MaxCmds
  /\ IF FootAlive
       THEN /\ q' = Enqueue(q, cmd)
            /\ reply' = [reply EXCEPT ![id] = [vals |-> <<>>, st |-> "open"]]
            /\ calls' = Append(calls, [kind |-> kind, model |-> model, res |-> Accepted])
       ELSE /\ q' = q
            /\ reply' = reply
            /\ calls' = Append(calls, [kind |-> kind, model |-> model, res |-> failure])
  /\ UNCHANGED << bpc, backend_state, mtx, adapter, routed, failover, ends >>

send_prompt(prompt, model) ==
  /\ Queue("SendPrompt", model, send_prompt_q,
           [prompt |-> prompt, model |-> model, reply |-> Len(calls) + 1],
           Disconnected)
  /\ UNCHANGED << set_api_keys_q, get_model_lists_q, kill_process_q,
                  set_model_fallback_preference_q >>

set_api_keys(keys) ==
  /\ Queue("SetApiKeys", "", set_api_keys_q,
           [keys |-> keys, reply |-> Len(calls) + 1], Disconnected)
  /\ UNCHANGED << send_prompt_q, get_model_lists_q, kill_process_q,
                  set_model_fallback_preference_q >>

get_model_lists ==
  /\ Queue("GetModelLists", "", get_model_lists_q,
           [reply |-> Len(calls) + 1], Disconnected)
  /\ UNCHANGED << send_prompt_q, set_api_keys_q, kill_process_q,
                  set_model_fallback_preference_q >>

set_model_fallback_preference(preferences) ==
  /\ Queue("SetModelFallbackPreference", "", set_model_fallback_preference_q,
           [preferences |-> preferences, reply |-> Len(calls) + 1], Disconnected)
  /\ UNCHANGED << send_prompt_q, set_api_keys_q, get_model_lists_q,
                  kill_process_q >>

\* AllmBackend::shutdown, up to its send on kill_process_tx
shutdown ==
  /\ Queue("Shutdown", "", kill_process_q,
           [reply |-> Len(calls) + 1], AlreadyShutdown)
  /\ UNCHANGED << send_prompt_q, set_api_keys_q, get_model_lists_q,
                  set_model_fallback_preference_q >>

\* ------------------------------------------- dispatcher (run_backend_loop)

\* mutant: the SendPrompt arm awaits the adapter's result before the next turn
LoopRunningAwaitsAdapter == bpc = "loop" /\ mpc # "http" /\ cmd_q = <<>>

\* mutant: the arms stay live until the receivers are dropped
LoopRunningUntilDropped == bpc # "done"

\* The select! arms are polled only inside the loop
LoopRunning == bpc = "loop"

\* mutant: the dispatcher also acknowledges the forward on the caller's conduit
MistralSendPromptAcks(cmd) ==
  IF mpc # "done"
    THEN /\ cmd_q' = Append(cmd_q, [type |-> "SendPrompt", prompt |-> cmd.prompt,
                                    model |-> cmd.model, reply |-> cmd.reply])
         /\ reply' = ReplySend(reply, cmd.reply, Ok("Unit", <<>>))
    ELSE /\ cmd_q' = cmd_q
         /\ reply' = ReplyDrop(reply, cmd.reply)

\* mutant: the forwarded prompt goes to the front of the adapter's channel
MistralSendPromptFront(cmd) ==
  IF mpc # "done"
    THEN /\ cmd_q' = << [type |-> "SendPrompt", prompt |-> cmd.prompt,
                         model |-> cmd.model, reply |-> cmd.reply] >> \o cmd_q
         /\ reply' = reply
    ELSE /\ cmd_q' = cmd_q
         /\ reply' = ReplyDrop(reply, cmd.reply)

\* MistralClient::send_prompt: one send on the adapter's unbounded channel;
\* it fails (and the command is dropped) only if the adapter's receiver is
\* gone
MistralSendPrompt(cmd) ==
  IF mpc # "done"
    THEN /\ cmd_q' = Append(cmd_q, [type |-> "SendPrompt", prompt |-> cmd.prompt,
                                    model |-> cmd.model, reply |-> cmd.reply])
         /\ reply' = reply
    ELSE /\ cmd_q' = cmd_q
         /\ reply' = ReplyDrop(reply, cmd.reply)

\* mutant: an earlier failure moves the dispatcher on to the next provider
RouteProviderBiased ==
  IF \E c \in CmdIds : reply[c].vals # <<>> /\ ~reply[c].vals[1].ok
    THEN OpenAI
    ELSE current_model.provider

\* match state.current_model.0
RouteProvider == current_model.provider

\* arm 1: Some(cmd) = send_prompt_rx.recv()
HandleSendPrompt ==
  /\ LoopRunning
  /\ send_prompt_q # <<>>
  /\ LET cmd == Head(send_prompt_q) IN
       CASE RouteProvider = MistralAi -> MistralSendPrompt(cmd)
         [] OTHER ->
              /\ reply' = ReplyOnce(reply, cmd.reply,
                            Err("ProviderNotImplemented", <<DebugFmt(current_model.provider)>>))
              /\ cmd_q' = cmd_q
  /\ send_prompt_q' = Tail(send_prompt_q)
  /\ routed' = [routed EXCEPT ![Head(send_prompt_q).reply] =
                  [done |-> TRUE, prefs |-> fallback_preferences]]
  /\ UNCHANGED << calls, set_api_keys_q, get_model_lists_q, kill_process_q,
                  set_model_fallback_preference_q, bpc, backend_state, mtx,
                  mpc, cur, master_key, model_keys, net, failover, ends >>

\* for key_spec in cmd.keys { state.api_keys.insert(..) }
RECURSIVE InsertKeys(_, _)
InsertKeys(map, keys) ==
  IF keys = <<>> THEN map
  ELSE InsertKeys(Insert(map, <<Head(keys).provider, Head(keys).model>>, Head(keys).key),
                  Tail(keys))

\* mutant: the keys for MistralAi are passed on to the adapter as well
HandleSetApiKeysForwards ==
  /\ bpc = "loop"
  /\ set_api_keys_q # <<>>
  /\ LET cmd == Head(set_api_keys_q)
         mine == SelectSeq(cmd.keys, LAMBDA k : k.provider = MistralAi /\ k.model = "")
     IN
       /\ api_keys' = InsertKeys(api_keys, cmd.keys)
       /\ master_key' = IF mine = <<>> THEN master_key ELSE mine[Len(mine)].key
       /\ reply' = ReplyOnce(reply, cmd.reply, Ok("Unit", <<>>))
  /\ set_api_keys_q' = Tail(set_api_keys_q)
  /\ UNCHANGED << calls, send_prompt_q, get_model_lists_q, kill_process_q,
                  set_model_fallback_preference_q, bpc, current_model,
                  fallback_preferences, mtx, cmd_q, mpc, cur, model_keys, net,
                  routed, failover, ends >>

\* arm 2: Some(cmd) = set_api_keys_rx.recv()
HandleSetApiKeys ==
  /\ LoopRunning
  /\ set_api_keys_q # <<>>
  /\ LET cmd == Head(set_api_keys_q) IN
       /\ api_keys' = InsertKeys(api_keys, cmd.keys)
       /\ reply' = ReplyOnce(reply, cmd.reply, Ok("Unit", <<>>))
       /\ bpc' = AfterSend(cmd.reply, bpc)
  /\ set_api_keys_q' = Tail(set_api_keys_q)
  /\ UNCHANGED << calls, send_prompt_q, get_model_lists_q, kill_process_q,
                  set_model_fallback_preference_q, current_model,
                  fallback_preferences, mtx, adapter, routed, failover, ends >>

\* arm 3: Some(cmd) = get_model_lists_rx.recv()
HandleGetModelLists ==
  /\ LoopRunning
  /\ get_model_lists_q # <<>>
  /\ LET cmd == Head(get_model_lists_q) IN
       /\ reply' = ReplyOnce(reply, cmd.reply, Ok("ModelList", <<>>))
       /\ bpc' = AfterSend(cmd.reply, bpc)
  /\ get_model_lists_q' = Tail(get_model_lists_q)
  /\ UNCHANGED << calls, send_prompt_q, set_api_keys_q, kill_process_q,
                  set_model_fallback_preference_q, backend_state, mtx,
                  adapter, routed, failover, ends >>

\* mutant: the break is missing
HandleKillProcessNoBreak ==
  /\ bpc = "loop"
  /\ kill_process_q # <<>>
  /\ LET cmd == Head(kill_process_q) IN
       reply' = ReplyOnce(reply, cmd.reply, Ok("Unit", <<>>))
  /\ kill_process_q' = Tail(kill_process_q)
  /\ UNCHANGED << calls, send_prompt_q, set_api_keys_q, get_model_lists_q,
                  set_model_fallback_preference_q, bpc, backend_state, mtx, adapter,
                  routed, failover, ends >>

\* mutant: the arm breaks without confirming
HandleKillProcessNoReply ==
  /\ bpc = "loop"
  /\ kill_process_q # <<>>
  /\ LET cmd == Head(kill_process_q) IN
       reply' = ReplyDrop(reply, cmd.reply)
  /\ kill_process_q' = Tail(kill_process_q)
  /\ bpc' = "exiting"
  /\ UNCHANGED << calls, send_prompt_q, set_api_keys_q, get_model_lists_q,
                  set_model_fallback_preference_q, backend_state, mtx, adapter,
                  routed, failover, ends >>

\* arm 4: Some(cmd) = kill_process_rx.recv(): reply, then break
HandleKillProcess ==
  /\ LoopRunning
  /\ kill_process_q # <<>>
  /\ LET cmd == Head(kill_process_q) IN
       reply' = ReplyOnce(reply, cmd.reply, Ok("Unit", <<>>))
  /\ kill_process_q' = Tail(kill_process_q)
  /\ bpc' = "exiting"
  /\ UNCHANGED << calls, send_prompt_q, set_api_keys_q, get_model_lists_q,
                  set_model_fallback_preference_q, backend_state, mtx, adapter,
                  routed, failover, ends >>

\* mutant: the new candidates are added after the old ones (Vec::extend)
HandleSetModelFallbackPreferenceExtends ==
  /\ bpc = "loop"
  /\ set_model_fallback_preference_q # <<>>
  /\ LET cmd == Head(set_model_fallback_preference_q) IN
       /\ fallback_preferences' = fallback_preferences \o cmd.preferences
       /\ reply' = ReplyOnce(reply, cmd.reply, Ok("Unit", <<>>))
  /\ set_model_fallback_preference_q' = Tail(set_model_fallback_preference_q)
  /\ UNCHANGED << calls, send_prompt_q, set_api_keys_q, get_model_lists_q,
                  kill_process_q, bpc, current_model, api_keys, mtx, adapter,
                  routed, failover, ends >>

\* mutant: the first candidate of a new list becomes the current model
HandleSetModelFallbackPreferenceSelects ==
  /\ bpc = "loop"
  /\ set_model_fallback_preference_q # <<>>
  /\ LET cmd == Head(set_model_fallback_preference_q) IN
       /\ fallback_preferences' = cmd.preferences
       /\ current_model' =
            IF cmd.preferences = <<>> THEN current_model
            ELSE [provider |-> cmd.preferences[1][1], name |-> cmd.preferences[1][2]]
       /\ reply' = ReplyOnce(reply, cmd.reply, Ok("Unit", <<>>))
  /\ set_model_fallback_preference_q' = Tail(set_model_fallback_preference_q)
  /\ UNCHANGED << calls, send_prompt_q, set_api_keys_q, get_model_lists_q,
                  kill_process_q, bpc, api_keys, mtx, adapter, routed,
                  failover, ends >>

\* arm 5: Some(cmd) = set_model_fallback_preference_rx.recv()
HandleSetModelFallbackPreference ==
  /\ LoopRunning
  /\ set_model_fallback_preference_q # <<>>
  /\ LET cmd == Head(set_model_fallback_preference_q) IN
       /\ fallback_preferences' = cmd.preferences
       /\ reply' = ReplyOnce(reply, cmd.reply, Ok("Unit", <<>>))
       /\ bpc' = AfterSend(cmd.reply, bpc)
  /\ set_model_fallback_preference_q' = Tail(set_model_fallback_preference_q)
  /\ UNCHANGED << calls, send_prompt_q, set_api_keys_q, get_model_lists_q,
                  kill_process_q, current_model, api_keys, mtx, adapter,
                  routed, failover, ends >>

\* mutant: dropping the client aborts the adapter task where it stands
BackendExitAbortsAdapter ==
  /\ bpc = "exiting"
  /\ bpc' = "done"
  /\ reply' = DropAll(reply, send_prompt_q \o set_api_keys_q \o get_model_lists_q
                             \o kill_process_q \o set_model_fallback_preference_q
                             \o cmd_q \o (IF mpc = "http" THEN <<cur>> ELSE <<>>))
  /\ send_prompt_q' = <<>>
  /\ set_api_keys_q' = <<>>
  /\ get_model_lists_q' = <<>>
  /\ kill_process_q' = <<>>
  /\ set_model_fallback_preference_q' = <<>>
  /\ mtx' = FALSE
  /\ cmd_q' = <<>>
  /\ mpc' = "done"
  /\ UNCHANGED << calls, backend_state, cur, master_key, model_keys, net,
                  routed, failover, ends >>

\* The function returns after the break: the five receivers are dropped with
\* whatever they still hold (each queued command's reply sender with it),
\* then the state, and with it the adapter's only command sender.
BackendExit ==
  /\ bpc = "exiting"
  /\ bpc' = "done"
  /\ reply' = DropAll(reply, send_prompt_q \o set_api_keys_q \o get_model_lists_q
                             \o kill_process_q \o set_model_fallback_preference_q)
  /\ send_prompt_q' = <<>>
  /\ set_api_keys_q' = <<>>
  /\ get_model_lists_q' = <<>>
  /\ kill_process_q' = <<>>
  /\ set_model_fallback_preference_q' = <<>>
  /\ mtx' = FALSE
  /\ UNCHANGED << calls, backend_state, adapter, routed, failover, ends >>

\* ---------------------------------------------- adapter (run_mistral_loop)

\* mutant: a missing key defaults to the empty string
get_api_key_or_default(model) ==
  IF model \in DOMAIN model_keys
    THEN Ok("Key", <<model_keys[model]>>)
    ELSE IF master_key # NoKey
      THEN Ok("Key", <<master_key>>)
      ELSE Ok("Key", <<"">>)

\* mutant: the master key is tried before the model's own key
get_api_key_master_first(model) ==
  IF master_key # NoKey
    THEN Ok("Key", <<master_key>>)
    ELSE IF model \in DOMAIN model_keys
      THEN Ok("Key", <<model_keys[model]>>)
      ELSE Err("MissingApiKey", <<"Mistral:", model>>)

\* MistralClientState::get_api_key
get_api_key(model) ==
  IF model \in DOMAIN model_keys
    THEN Ok("Key", <<model_keys[model]>>)
    ELSE IF master_key # NoKey
      THEN Ok("Key", <<master_key>>)
      ELSE Err("MissingApiKey", <<"Mistral:", model>>)

\* mutant: without a master key any stored model key is used
get_master_key_or_any ==
  IF master_key # NoKey
    THEN Ok("Key", <<master_key>>)
    ELSE IF DOMAIN model_keys # {}
      THEN Ok("Key", <<model_keys[CHOOSE m \in DOMAIN model_keys : TRUE]>>)
      ELSE Err("MissingApiKey", <<"Mistral (master)">>)

\* handle_get_models: self.master_key.as_ref().ok_or_else(..)
get_master_key ==
  IF master_key # NoKey
    THEN Ok("Key", <<master_key>>)
    ELSE Err("MissingApiKey", <<"Mistral (master)">>)

\* mutant: a model's key is also taken as the master key
handle_set_api_key_both(model_opt, key) ==
  [ master_key |-> key
  , model_keys |-> IF model_opt # NoKey THEN Insert(model_keys, model_opt, key)
                                        ELSE model_keys ]

\* MistralClientState::handle_set_api_key with set_model_key and
\* set_master_key: the key state it leaves
handle_set_api_key(model_opt, key) ==
  [ master_key |-> IF model_opt # NoKey THEN master_key ELSE key
  , model_keys |-> IF model_opt # NoKey THEN Insert(model_keys, model_opt, key)
                                        ELSE model_keys ]

\* handle_send_prompt after the request was sent: the outcome of the call
ChatResult(resp) ==
  CASE resp = "TransportFailure" -> Err("HttpError", <<>>)
    [] resp = "NonSuccessStatus" -> Err("ApiError", <<"Mistral error: ">>)
    [] resp = "MalformedBody" -> Err("ParseError", <<>>)
    [] resp = "ZeroChoices" -> Err("NoChoicesInResponse", <<>>)
    [] resp = "Choices" -> Ok("Text", <<"first choice">>)

\* handle_get_models after the request was sent
ModelsResult(resp) ==
  CASE resp = "TransportFailure" -> Err("HttpError", <<>>)
    [] resp = "NonSuccessStatus" -> Err("ApiError", <<>>)
    [] resp = "MalformedBody" -> Err("ParseError", <<>>)
    [] resp = "Catalog" -> Ok("ModelNames", <<"m1", "m2">>)

\* mutant: the break is missing, the loop goes back to the channel
MistralShutdownArmContinues ==
  /\ cmd_q' = Tail(cmd_q)
  /\ UNCHANGED << mpc, reply, cur, net, master_key, model_keys >>
\* Some(MistralCommand::Shutdown) => break: the function returns, cmd_rx is
\* dropped with the commands still in the channel and their reply senders
MistralShutdownArm ==
  /\ mpc' = "done"
  /\ reply' = DropAll(reply, Tail(cmd_q))
  /\ cmd_q' = <<>>
  /\ UNCHANGED << cur, net, master_key, model_keys >>

\* mutant: a command is taken while the previous one awaits its response
AwaitingRecvOrHttp == mpc \in {"recv", "http"}

\* The loop is at cmd_rx.recv().await: the handler it awaited has returned
\* and its result has been sent
AwaitingRecv == mpc = "recv"

\* One turn of the loop up to its first await on the network (or to the
\* reply, when the command needs no request)
MistralRecv ==
  /\ AwaitingRecv
  /\ cmd_q # <<>>
  /\ LET cmd == Head(cmd_q) IN
       CASE cmd.type = "SendPrompt" ->
              LET key == get_api_key(cmd.model) IN
              /\ IF key.ok
                   THEN /\ mpc' = "http"
                        /\ cur' = [type |-> "SendPrompt", prompt |-> cmd.prompt,
                                 model |-> cmd.model, reply |-> cmd.reply,
                                 key |-> key.msg[1]]
                        /\ net' = [net EXCEPT ![cmd.reply] = @ + 1]
                        /\ reply' = reply
                   ELSE /\ reply' = ReplyOnce(reply, cmd.reply, key)
                        /\ UNCHANGED << mpc, cur, net >>
              /\ cmd_q' = Tail(cmd_q)
              /\ UNCHANGED << master_key, model_keys >>
         [] cmd.type = "GetModels" ->
              LET key == get_master_key IN
              /\ IF key.ok
                   THEN /\ mpc' = "http"
                        /\ cur' = [type |-> "GetModels", reply |-> cmd.reply,
                                 key |-> key.msg[1]]
                        /\ net' = [net EXCEPT ![cmd.reply] = @ + 1]
                        /\ reply' = reply
                   ELSE /\ reply' = ReplyOnce(reply, cmd.reply, key)
                        /\ UNCHANGED << mpc, cur, net >>
              /\ cmd_q' = Tail(cmd_q)
              /\ UNCHANGED << master_key, model_keys >>
         [] cmd.type = "SetApiKey" ->
              /\ master_key' = handle_set_api_key(cmd.model, cmd.key).master_key
              /\ model_keys' = handle_set_api_key(cmd.model, cmd.key).model_keys
              /\ reply' = ReplyOnce(reply, cmd.reply, Ok("Unit", <<>>))
              /\ cmd_q' = Tail(cmd_q)
              /\ UNCHANGED << mpc, cur, net >>
         [] cmd.type = "Shutdown" -> MistralShutdownArm
  /\ UNCHANGED << calls, queues, bpc, backend_state, mtx, routed, failover, ends >>

\* mutant: the loop ends as soon as it finds its channel empty
MistralRecvNoneWhenIdle ==
  /\ mpc = "recv"
  /\ cmd_q = <<>>
  /\ mpc' = "done"
  /\ UNCHANGED << calls, reply, queues, bpc, backend_state, mtx, cmd_q, cur,
                  master_key, model_keys, net, routed, failover, ends >>

\* cmd_rx.recv() yields None: the channel is empty and every sender is gone
MistralRecvNone ==
  /\ mpc = "recv"
  /\ cmd_q = <<>>
  /\ ~mtx
  /\ mpc' = "done"
  /\ UNCHANGED << calls, reply, queues, bpc, backend_state, mtx, cmd_q, cur,
                  master_key, model_keys, net, routed, failover, ends >>

\* mutant: a transport failure is tried once more before it is reported
MistralHttpDoneRetries(resp) ==
  /\ mpc = "http"
  /\ resp \in (IF cur.type = "SendPrompt" THEN ChatResponses ELSE ModelsResponses)
  /\ IF resp = "TransportFailure" /\ net[cur.reply] < 2
       THEN /\ net' = [net EXCEPT ![cur.reply] = @ + 1]
            /\ UNCHANGED << reply, mpc, cur >>
       ELSE /\ reply' = ReplyOnce(reply, cur.reply,
                          IF cur.type = "SendPrompt" THEN ChatResult(resp)
                                                     ELSE ModelsResult(resp))
            /\ mpc' = "recv"
            /\ cur' = <<>>
            /\ net' = net
  /\ UNCHANGED << calls, queues, bpc, backend_state, mtx, cmd_q, master_key,
                  model_keys, routed, failover, ends >>

\* The network call completes; its outcome is written to the reply conduit
MistralHttpDone(resp) ==
  /\ mpc = "http"
  /\ resp \in (IF cur.type = "SendPrompt" THEN ChatResponses ELSE ModelsResponses)
  /\ reply' = ReplyOnce(reply, cur.reply,
                IF cur.type = "SendPrompt" THEN ChatResult(resp) ELSE ModelsResult(resp))
  /\ mpc' = AfterSend(cur.reply, "recv")
  /\ cur' = <<>>
  /\ UNCHANGED << calls, queues, bpc, backend_state, mtx, cmd_q, master_key,
                  model_keys, net, routed, failover, ends >>

\* ------------------------------------------------------------ specification

Caller ==
  \/ \E p \in Prompts, m \in Models : send_prompt(p, m)
  \/ \E keys \in KeySpecLists : set_api_keys(keys)
  \/ get_model_lists
  \/ \E prefs \in PrefLists : set_model_fallback_preference(prefs)
  \/ shutdown

Dispatcher ==
  \/ HandleSendPrompt
  \/ HandleSetApiKeys
  \/ HandleGetModelLists
  \/ HandleKillProcess
  \/ HandleSetModelFallbackPreference
  \/ BackendExit

Adapter ==
  \/ MistralRecv
  \/ MistralRecvNone
  \/ \E resp \in HttpResponses : MistralHttpDone(resp)

Next == Caller \/ Dispatcher \/ Adapter

Spec == Init /\ [][Next]_vars

\* Each task is polled again whenever it has something to do; every network
\* call completes.
FairSpec == Spec /\ WF_vars(Dispatcher) /\ WF_vars(Adapter)

\* The SendPrompt arm taken for every value of state.current_model.0
InitAnyProvider == \E p \in Providers : InitWith(p)
SpecAnyProvider == InitAnyProvider /\ [][Next]_vars

\* ------------------------------------ callers that stop awaiting a reply

\* The future of a queueing method is dropped while it awaits rx (or the
\* receiver it returned is dropped): the reply receiver of call c is gone,
\* the command it queued stays where it is.  A receiver dropped after its
\* conduit was written or closed changes nothing any task can observe, so
\* only the drop of a receiver that is still waiting is a step.
drop_reply_rx(c) ==
  /\ c \in DOMAIN calls
  /\ calls[c].res = Accepted
  /\ c \notin abandoned
  /\ reply[c] = [vals |-> <<>>, st |-> "open"]
  /\ abandoned' = abandoned \cup {c}
  /\ UNCHANGED << calls, reply, queues, bpc, backend_state, mtx, adapter,
                  routed, failover, hand >>

NextAbandon == Next \/ \E c \in CmdIds : drop_reply_rx(c)

SpecAbandon == Init /\ [][NextAbandon]_vars

FairSpecAbandon == SpecAbandon /\ WF_vars(Dispatcher) /\ WF_vars(Adapter)

\* ------------------------------------------- callers holding an AllmBackend

\* The four &self methods, callable while the caller holds the backend
BackendCall ==
  /\ hand = "held"
  /\ \/ \E p \in Prompts, m \in Models : send_prompt(p, m)
     \/ \E keys \in KeySpecLists : set_api_keys(keys)
     \/ get_model_lists
     \/ \E prefs \in PrefLists : set_model_fallback_preference(prefs)

\* AllmBackend::shutdown(self) up to its await: the backend moves into the
\* call, the command is sent; a failed send returns at once and drops self
backend_shutdown ==
  LET id == Len(calls) + 1 IN
  /\ hand = "held"
  /\ Len(calls) < MaxCmds
  /\ IF FootAlive
       THEN /\ kill_process_q' = Append(kill_process_q, [reply |-> id])
            /\ reply' = [reply EXCEPT ![id] = [vals |-> <<>>, st |-> "open"]]
            /\ calls' = Append(calls, [kind |-> "Shutdown", model |-> "", res |-> Accepted])
            /\ hand' = "shutting"
       ELSE /\ kill_process_q' = kill_process_q
            /\ reply' = reply
            /\ calls' = Append(calls, [kind |-> "Shutdown", model |-> "",
                                       res |-> AlreadyShutdown])
            /\ hand' = "dropped"
  /\ UNCHANGED << send_prompt_q, set_api_keys_q, get_model_lists_q,
                  set_model_fallback_preference_q, bpc, backend_state, mtx,
                  adapter, routed, failover, abandoned >>

Timeout == Err("Timeout", <<>>)

\* reply_rx.recv().await in shutdown: the confirmation, or Timeout when the
\* conduit closed without one; then self (with every sender) is dropped
backend_shutdown_returns ==
  LET id == Len(calls) IN
  /\ hand = "shutting"
  /\ reply[id].vals # <<>> \/ reply[id].st = "closed"
  /\ calls' = [calls EXCEPT ![id].res =
                 IF reply[id].vals # <<>> THEN reply[id].vals[1] ELSE Timeout]
  /\ hand' = "dropped"
  /\ UNCHANGED << reply, queues, bpc, backend_state, mtx, adapter, routed,
                  failover, abandoned >>

\* The backend goes out of scope without shutdown(): its AllmHand, the only
\* senders left after new() returned, is dropped
backend_drop ==
  /\ hand = "held"
  /\ hand' = "dropped"
  /\ UNCHANGED << calls, reply, queues, bpc, backend_state, mtx, adapter,
                  routed, failover, abandoned >>

\* Every recv() yields None (closed and empty), no pattern matches, every
\* branch is disabled and there is no else branch: select! panics, and the
\* unwinding task drops its receivers and its state
SelectPanics ==
  /\ LoopRunning
  /\ hand = "dropped"
  /\ send_prompt_q = <<>>
  /\ set_api_keys_q = <<>>
  /\ get_model_lists_q = <<>>
  /\ kill_process_q = <<>>
  /\ set_model_fallback_preference_q = <<>>
  /\ bpc' = "panicked"
  /\ mtx' = FALSE
  /\ UNCHANGED << calls, reply, queues, backend_state, adapter, routed,
                  failover, ends >>

BackendCaller ==
  \/ BackendCall
  \/ backend_shutdown
  \/ backend_shutdown_returns
  \/ backend_drop

NextBackend == BackendCaller \/ Dispatcher \/ SelectPanics \/ Adapter

SpecBackend == Init /\ [][NextBackend]_vars

\* As FairSpec; the caller awaiting in shutdown() is woken by the reply
FairSpecBackend ==
  SpecBackend /\ WF_vars(Dispatcher) /\ WF_vars(Adapter)
              /\ WF_vars(backend_shutdown_returns)

\* ------------------------------------- the adapter driven by its own client

\* Option<String> arguments of MistralClient::set_api_key
ModelOpts == Models \cup {NoKey}
NewKeys == {"k1", "k2"}

\* MistralClient::new(api_key, None), with no dispatcher in front of it
InitMistral ==
  /\ calls = <<>>
  /\ reply = [c \in CmdIds |-> NoConduit]
  /\ send_prompt_q = <<>>
  /\ set_api_keys_q = <<>>
  /\ get_model_lists_q = <<>>
  /\ kill_process_q = <<>>
  /\ set_model_fallback_preference_q = <<>>
  /\ bpc = "done"
  /\ current_model = [provider |-> MistralAi, name |-> DefaultModelName]
  /\ api_keys = <<>>
  /\ fallback_preferences = <<>>
  /\ mtx = TRUE
  /\ cmd_q = <<>>
  /\ mpc = "recv"
  /\ cur = <<>>
  /\ master_key \in InitialKeys
  /\ model_keys = <<>>
  /\ net = [c \in CmdIds |-> 0]
  /\ routed = [c \in CmdIds |-> [done |-> FALSE, prefs |-> <<>>]]
  /\ FailoverIdle
  /\ hand = "dropped"
  /\ abandoned = {}

ClientDisconnected == Err("Other", <<"Mistral client disconnected">>)

\* The body shared by MistralClient's three queueing methods: the caller
\* made the conduit and passes its sender; self.tx.send(cmd) fails, and
\* drops the command with the sender, only if the adapter's receiver is gone
MistralQueue(kind, model, cmd) ==
  LET id == Len(calls) + 1 IN
  /\ Len(calls) < MaxCmds
  /\ mtx
  /\ IF mpc # "done"
       THEN /\ cmd_q' = Append(cmd_q, cmd)
            /\ reply' = [reply EXCEPT ![id] = [vals |-> <<>>, st |-> "open"]]
            /\ calls' = Append(calls, [kind |-> kind, model |-> model,
                                       res |-> Ok("Unit", <<>>)])
       ELSE /\ cmd_q' = cmd_q
            /\ reply' = [reply EXCEPT ![id] = [vals |-> <<>>, st |-> "closed"]]
            /\ calls' = Append(calls, [kind |-> kind, model |-> model,
                                       res |-> ClientDisconnected])
  /\ UNCHANGED << queues, bpc, backend_state, mtx, mpc, cur, master_key,
                  model_keys, net, routed, failover, ends >>

\* MistralClient::send_prompt
mistral_send_prompt(prompt, model) ==
  MistralQueue("SendPrompt", model,
               [type |-> "SendPrompt", prompt |-> prompt, model |-> model,
                reply |-> Len(calls) + 1])

\* MistralClient::get_available_models
get_available_models ==
  MistralQueue("GetModels", "", [type |-> "GetModels", reply |-> Len(calls) + 1])

\* MistralClient::set_api_key
set_api_key(model, key) ==
  MistralQueue("SetApiKey", model,
               [type |-> "SetApiKey", model |-> model, key |-> key,
                reply |-> Len(calls) + 1])

\* MistralClient::shutdown(self): one send, then the client is gone
mistral_shutdown ==
  /\ mtx
  /\ cmd_q' = IF mpc # "done" THEN Append(cmd_q, [type |-> "Shutdown"]) ELSE cmd_q
  /\ mtx' = FALSE
  /\ UNCHANGED << calls, reply, queues, bpc, backend_state, mpc, cur,
                  master_key, model_keys, net, routed, failover, ends >>

\* The client is dropped without a shutdown
mistral_drop ==
  /\ mtx
  /\ mtx' = FALSE
  /\ UNCHANGED << calls, reply, queues, bpc, backend_state, cmd_q, mpc, cur,
                  master_key, model_keys, net, routed, failover, ends >>

MistralCaller ==
  \/ \E p \in Prompts, m \in Models : mistral_send_prompt(p, m)
  \/ get_available_models
  \/ \E m \in ModelOpts, k \in NewKeys : set_api_key(m, k)
  \/ mistral_shutdown
  \/ mistral_drop

NextMistral == MistralCaller \/ Adapter

SpecMistral == InitMistral /\ [][NextMistral]_vars

\* ------------------- run_mistral_loop fed by any holder of its command sender

\* tx.send(MistralCommand::Shutdown) by a sender that stays alive afterwards.
\* MistralClient::shutdown consumes the only sender, so this step is one of
\* the loop's channel alone, not of a MistralClient caller.  One Shutdown in
\* the channel is enough: whatever is behind it is dropped unread.
tx_send_shutdown ==
  /\ mtx
  /\ mpc # "done"
  /\ \A i \in DOMAIN cmd_q : cmd_q[i].type # "Shutdown"
  /\ cmd_q' = Append(cmd_q, [type |-> "Shutdown"])
  /\ UNCHANGED << calls, reply, queues, bpc, backend_state, mtx, mpc, cur,
                  master_key, model_keys, net, routed, failover, ends >>

MistralSender ==
  \/ \E p \in Prompts, m \in Models : mistral_send_prompt(p, m)
  \/ get_available_models
  \/ \E m \in ModelOpts, k \in NewKeys : set_api_key(m, k)
  \/ tx_send_shutdown
  \/ mistral_drop

NextMistralLoop == MistralSender \/ Adapter

SpecMistralLoop == InitMistral /\ [][NextMistralLoop]_vars

\* ------------------------------------------------------------ failover.rs

\* The largest cursor and the largest attempt number explored.  The cursor
\* is a usize: its overflow lies far beyond any bound explored here.
MaxNext == 4
MaxAttempt == 3

\* Arguments of FailoverSequence::new
ProviderLists ==
  { <<>>
  , << <<MistralAi, "m1">> >>
  , Pref12
  , Pref12 \o << <<Anthropic, "m1">> >>
  }

\* Arguments of RetryPolicy::new (whole multipliers only)
Policies ==
  [ max_retries : {0, 3}
  , backoff_multiplier : {1, 2, 3}
  , initial_backoff : {0, 1, 100, 16777217} ]

\* Option<T>
None == <<>>
Some(x) == <<x>>

\* Vec::get with a 0-based index
Get(v, i) == IF i < Len(v) THEN Some(v[i + 1]) ELSE None

\* Every whole number below 2^24 is an f32
F32Exact == 16777216

RECURSIVE F32Shift(_)
F32Shift(n) == IF n < F32Exact THEN 0 ELSE 1 + F32Shift(n \div 2)

\* `as f32` and the rounding of an f32 product: the nearest value with a
\* 24-bit significand, ties to the even one
F32(n) ==
  LET e == F32Shift(n)
      unit == 2 ^ e
      q == n \div unit
      r == n % unit
  IN IF e = 0 THEN n
     ELSE IF 2 * r > unit \/ (2 * r = unit /\ q % 2 = 1)
       THEN (q + 1) * unit
       ELSE q * unit

\* f32::powi for a whole base
RECURSIVE Powi(_, _)
Powi(m, a) == IF a = 0 THEN 1 ELSE F32(m * Powi(m, a - 1))

\* mutant: the exponent is the number of the try, counted from 1
BackoffMillisFromOne(pol, attempt) ==
  F32(F32(pol.initial_backoff) * Powi(pol.backoff_multiplier, attempt + 1))

\* (self.initial_backoff.as_millis() as f32 * multiplier) as u64; the cast
\* to u64 keeps a whole, non-negative value below 2^64 as it is
BackoffMillis(pol, attempt) ==
  F32(F32(pol.initial_backoff) * Powi(pol.backoff_multiplier, attempt))

engine == << calls, reply, queues, bpc, backend_state, mtx, adapter, routed, ends >>

\* No backend was created
EngineIdle ==
  /\ calls = <<>>
  /\ reply = [c \in CmdIds |-> NoConduit]
  /\ send_prompt_q = <<>>
  /\ set_api_keys_q = <<>>
  /\ get_model_lists_q = <<>>
  /\ kill_process_q = <<>>
  /\ set_model_fallback_preference_q = <<>>
  /\ bpc = "done"
  /\ current_model = [provider |-> MistralAi, name |-> DefaultModelName]
  /\ api_keys = <<>>
  /\ fallback_preferences = <<>>
  /\ mtx = FALSE
  /\ cmd_q = <<>>
  /\ mpc = "done"
  /\ cur = <<>>
  /\ master_key = NoKey
  /\ model_keys = <<>>
  /\ net = [c \in CmdIds |-> 0]
  /\ routed = [c \in CmdIds |-> [done |-> FALSE, prefs |-> <<>>]]
  /\ hand = "dropped"
  /\ abandoned = {}

\* FailoverSequence::new(providers) and RetryPolicy::new(..)
InitFailover ==
  /\ EngineIdle
  /\ providers \in ProviderLists
  /\ current_index = 0
  /\ nexts = 0
  /\ policy \in Policies
  /\ ret = NoRet

\* FailoverSequence::current
current ==
  /\ ret' = [op |-> "current", arg |-> 0, val |-> Get(providers, current_index)]
  /\ UNCHANGED << engine, providers, current_index, nexts, policy >>

\* FailoverSequence::next
next ==
  /\ current_index < MaxNext
  /\ current_index' = current_index + 1
  /\ nexts' = nexts + 1
  /\ ret' = [op |-> "next", arg |-> 0, val |-> Get(providers, current_index')]
  /\ UNCHANGED << engine, providers, policy >>

\* mutant: the candidate under the cursor counts as one still to try
has_next_inclusive ==
  /\ ret' = [op |-> "has_next", arg |-> 0, val |-> current_index < Len(providers)]
  /\ UNCHANGED << engine, providers, current_index, nexts, policy >>

\* FailoverSequence::has_next
has_next ==
  /\ ret' = [op |-> "has_next", arg |-> 0, val |-> current_index + 1 < Len(providers)]
  /\ UNCHANGED << engine, providers, current_index, nexts, policy >>

\* mutant: an exhausted sequence stays exhausted
reset_in_range ==
  /\ current_index' = IF current_index < Len(providers) THEN 0 ELSE current_index
  /\ nexts' = 0
  /\ ret' = [op |-> "reset", arg |-> current_index, val |-> None]
  /\ UNCHANGED << engine, providers, policy >>

\* FailoverSequence::reset (ret.arg records the cursor it found)
reset ==
  /\ current_index' = 0
  /\ nexts' = 0
  /\ ret' = [op |-> "reset", arg |-> current_index, val |-> None]
  /\ UNCHANGED << engine, providers, policy >>

\* RetryPolicy::backoff_for_attempt; the Duration returned, in milliseconds
backoff_for_attempt(attempt) ==
  /\ ret' = [op |-> "backoff_for_attempt", arg |-> attempt,
             val |-> BackoffMillis(policy, attempt)]
  /\ UNCHANGED << engine, providers, current_index, nexts, policy >>

NextFailover ==
  \/ current
  \/ next
  \/ has_next
  \/ reset
  \/ \E attempt \in 0..MaxAttempt : backoff_for_attempt(attempt)

SpecFailover == InitFailover /\ [][NextFailover]_vars

\* ------------------------------------------------------------------ claims

Issued == DOMAIN calls
AcceptedCall(c) == c \in Issued /\ calls[c].res = Accepted
InQ(q, c) == \E i \in DOMAIN q : q[i].reply = c
InDispatcherQueue(c) ==
  \/ InQ(send_prompt_q, c)
  \/ InQ(set_api_keys_q, c)
  \/ InQ(get_model_lists_q, c)
  \/ InQ(kill_process_q, c)
  \/ InQ(set_model_fallback_preference_q, c)
AtAdapter(c) == InQ(cmd_q, c) \/ (mpc = "http" /\ cur.reply = c)
Answered(c) == reply[c].vals # <<>>
ClosedEmpty(c) == reply[c].st = "closed" /\ reply[c].vals = <<>>
\* the dispatcher takes the head of its SendPrompt queue in this step
DequeuesSendPrompt ==
  /\ bpc = "loop"
  /\ send_prompt_q # <<>>
  /\ send_prompt_q' = Tail(send_prompt_q)
  /\ bpc' = "loop"

C1_AtMostOneValue ==
  \A c \in CmdIds :
    /\ Len(reply[c].vals) <= 1
    /\ ClosedEmpty(c) => ~AtAdapter(c)
C1_ClosedEmptyOnlyFromQueue ==
  \A c \in CmdIds :
    /\ (~ClosedEmpty(c) /\ ClosedEmpty(c)') => InDispatcherQueue(c)
    /\ reply[c].st = "closed" => reply'[c] = reply[c]
\* C1: no reply conduit ever holds more than one value, nothing is written
\* to a closed conduit, and a conduit closes without a value only while its
\* command is still in a dispatcher queue (never after it was dequeued).
C1_ExactlyOneReply == [](C1_AtMostOneValue) /\ [][C1_ClosedEmptyOnlyFromQueue]_vars
C1_Witness ==
  \E c, d \in Issued :
    /\ calls[c].kind = "SendPrompt" /\ reply[c].vals = <<ChatResult("Choices")>>
    /\ reply[c].st = "closed"
    /\ calls[d].kind = "Shutdown" /\ reply[d].vals = <<Ok("Unit", <<>>)>>

\* C2: under fair scheduling of the dispatcher and adapter tasks, with every
\* network call completing, every open reply conduit eventually holds a value
\* or is closed.
C2_NoCallerHangs ==
  \A c \in CmdIds : (reply[c].st = "open") ~> (Answered(c) \/ reply[c].st = "closed")
C2_Witness ==
  \E c, d \in Issued :
    /\ calls[c].kind = "SendPrompt" /\ Answered(c)
    /\ AcceptedCall(d) /\ ClosedEmpty(d)
    /\ bpc = "done" /\ mpc = "done"

C3_ArmsReady ==
  (bpc = "loop" /\ mpc = "http" /\ cur.type = "SendPrompt" /\ ~Answered(cur.reply)) =>
    /\ send_prompt_q # <<>> => ENABLED HandleSendPrompt
    /\ set_api_keys_q # <<>> => ENABLED HandleSetApiKeys
    /\ get_model_lists_q # <<>> => ENABLED HandleGetModelLists
    /\ kill_process_q # <<>> => ENABLED HandleKillProcess
    /\ set_model_fallback_preference_q # <<>> => ENABLED HandleSetModelFallbackPreference
C3_ForwardOnly ==
  (DequeuesSendPrompt /\ current_model.provider = MistralAi /\ mpc # "done") =>
    /\ cmd_q' = Append(cmd_q, [type |-> "SendPrompt",
                               prompt |-> Head(send_prompt_q).prompt,
                               model |-> Head(send_prompt_q).model,
                               reply |-> Head(send_prompt_q).reply])
    /\ reply' = reply
    /\ UNCHANGED << mpc, cur, net >>
\* C3: while a forwarded SendPrompt is in flight at the adapter the
\* dispatcher can take a command from every non-empty queue, and its
\* SendPrompt arm only enqueues into the adapter's queue and stays in the loop.
C3_DispatcherNotBlocked == [](C3_ArmsReady) /\ [][C3_ForwardOnly]_vars
C3_Witness ==
  /\ mpc = "http" /\ cur.type = "SendPrompt" /\ ~Answered(cur.reply)
  /\ \E g, h \in Issued :
       /\ g # h
       /\ g > cur.reply /\ h > cur.reply
       /\ calls[g].kind = "GetModelLists" /\ Answered(g)
       /\ calls[h].kind = "GetModelLists" /\ Answered(h)

IsPrefix(q, r) == Len(q) <= Len(r) /\ SubSeq(r, 1, Len(q)) = q
C4_ShutdownStep ==
  /\ (bpc = "loop" /\ bpc' # "loop") =>
       kill_process_q # <<>> /\ kill_process_q' = Tail(kill_process_q)
  /\ (bpc = "loop" /\ kill_process_q # <<>> /\ kill_process_q' = Tail(kill_process_q)) =>
       /\ reply'[Head(kill_process_q).reply] = [vals |-> <<Ok("Unit", <<>>)>>, st |-> "closed"]
       /\ bpc' = "exiting"
C4_AfterShutdownStep ==
  bpc # "loop" =>
    /\ bpc' # "loop"
    /\ backend_state' = backend_state
    /\ cmd_q' = cmd_q \/ (cmd_q # <<>> /\ cmd_q' = Tail(cmd_q))
    /\ \A i \in 1..5 : IsPrefix(queues[i], queues'[i]) \/ bpc' = "done"
    /\ \A c \in CmdIds :
         InDispatcherQueue(c) =>
           /\ ~Answered(c)'
           /\ ~AtAdapter(c)'
           /\ InDispatcherQueue(c)' \/ ClosedEmpty(c)'
C4_Stopped ==
  bpc = "done" =>
    /\ \A i \in 1..5 : queues[i] = <<>>
    /\ \A c \in CmdIds : AcceptedCall(c) => reply[c].st = "closed" \/ AtAdapter(c)
\* C4: processing Shutdown writes Ok(()) to its conduit and leaves the loop;
\* afterwards the dispatcher dequeues nothing, forwards nothing and changes
\* no state, and every command still queued ends with its conduit closed
\* without a value.
C4_ShutdownStops ==
  /\ [](C4_Stopped)
  /\ [][C4_ShutdownStep /\ C4_AfterShutdownStep]_vars
  /\ (bpc = "exiting") ~> (bpc = "done")
C4_Witness ==
  \E s, c \in Issued :
    /\ calls[s].kind = "Shutdown" /\ Answered(s)
    /\ calls[c].kind = "SetApiKeys" /\ AcceptedCall(c) /\ ClosedEmpty(c)
    /\ bpc = "done"
    /\ api_keys = <<>>

ShutdownThenPrompt(s, p) ==
  /\ s < p
  /\ calls[s].kind = "Shutdown" /\ AcceptedCall(s)
  /\ calls[p].kind = "SendPrompt" /\ AcceptedCall(p)
C5_Pending(s, p) ==
  ShutdownThenPrompt(s, p) /\ Answered(s) /\ ~Answered(p) /\ ~AtAdapter(p)
C5_PendingStays ==
  \A s, p \in Issued : C5_Pending(s, p) => ~Answered(p)' /\ ~AtAdapter(p)'
C5_PendingClosed ==
  bpc = "done" => \A s, p \in Issued : C5_Pending(s, p) => ClosedEmpty(p)
C6_CallStep ==
  \A id \in CmdIds :
    (Len(calls) + 1 = id /\ Len(calls') = id /\ calls'[id].kind # "Shutdown") =>
      /\ bpc = "done" =>
           /\ calls'[id].res = Err("Other", <<"Backend disconnected">>)
           /\ reply' = reply
           /\ reply[id].st = "none"
           /\ queues' = queues
      /\ bpc = "loop" =>
           /\ calls'[id].res = Accepted
           /\ reply[id].st = "none"
           /\ reply'[id] = [vals |-> <<>>, st |-> "open"]
           /\ InDispatcherQueue(id)'
C6_NeverBlocked ==
  Len(calls) < MaxCmds =>
    /\ ENABLED get_model_lists
    /\ \A m \in Models : ENABLED send_prompt("p1", m)
    /\ \A k \in KeySpecLists : ENABLED set_api_keys(k)
    /\ \A l \in PrefLists : ENABLED set_model_fallback_preference(l)
\* C6: a queueing call made after the dispatcher's receivers were dropped
\* returns Error::Other("Backend disconnected") and creates no conduit; one
\* made while the loop is running returns a fresh, open, empty conduit with
\* the command queued, and is never blocked.
C6_Queuing == [](C6_NeverBlocked) /\ [][C6_CallStep]_vars
C6_Witness ==
  \E c, d \in Issued :
    /\ calls[c].kind = "SendPrompt" /\ calls[c].res = Disconnected
    /\ calls[d].kind = "GetModelLists" /\ AcceptedCall(d)

Retryable(v) ==
  ~v.ok /\ v.tag \in {"RateLimitExceeded", "HttpError", "Timeout", "ApiError"}
C7_FailureStep ==
  \A c \in CmdIds :
    ( /\ bpc = "loop"
      /\ routed[c] = [done |-> TRUE, prefs |-> Pref12]
      /\ fallback_preferences = Pref12
      /\ mpc = "http" /\ cur.type = "SendPrompt" /\ cur.reply = c
      /\ mpc' = "recv" )
    => ~(reply'[c].vals # <<>> /\ Retryable(reply'[c].vals[1]))
\* C7 (as claimed): for a SendPrompt routed while the fallback list was
\* [(MistralAi, m1), (OpenAI, m2)], with that list still in force and the
\* dispatcher running, a retryable error reported by the Mistral adapter is
\* not written to the caller's reply conduit (the prompt is retried against
\* the next candidate instead).
C7_RetryHidesFailure == [][C7_FailureStep]_vars

C8_TargetStep ==
  DequeuesSendPrompt =>
    /\ current_model.provider = MistralAi
    /\ cmd_q' = Append(cmd_q, [type |-> "SendPrompt",
                               prompt |-> Head(send_prompt_q).prompt,
                               model |-> Head(send_prompt_q).model,
                               reply |-> Head(send_prompt_q).reply])
C8_OutcomeStep ==
  (mpc' # mpc \/ (cmd_q # <<>> /\ cmd_q' = Tail(cmd_q))) => backend_state' = backend_state
C8_Unbiased ==
  \A c \in CmdIds, i \in DOMAIN cmd_q :
    cmd_q[i].reply = c => cmd_q[i].model = calls[c].model
\* C8: the dispatcher forwards every SendPrompt it dequeues to the adapter
\* of its (initial) current-model provider with the command's own prompt and
\* model, whatever earlier SendPrompts returned, and no adapter outcome
\* changes the dispatcher's state.
C8_FirstAttemptUnbiased == [](C8_Unbiased) /\ [][C8_TargetStep /\ C8_OutcomeStep]_vars
C8_Witness ==
  \E c, d \in Issued :
    /\ c < d
    /\ calls[c].kind = "SendPrompt" /\ Answered(c) /\ Retryable(reply[c].vals[1])
    /\ calls[d].kind = "SendPrompt" /\ calls[d].model = "m2"
    /\ mpc = "http" /\ cur.reply = d /\ cur.model = "m2"

C9_Step ==
  \A c \in CmdIds :
    (DequeuesSendPrompt /\ Head(send_prompt_q).reply = c
       /\ current_model.provider # MistralAi) =>
      /\ reply'[c].st = "closed"
      /\ \E name \in {"OpenAI", "Anthropic"} :
           /\ (name = "OpenAI") = (current_model.provider = OpenAI)
           /\ (name = "Anthropic") = (current_model.provider = Anthropic)
           /\ reply'[c].vals = <<Err("ProviderNotImplemented", <<name>>)>>
      /\ UNCHANGED adapter
C9_NothingForwarded ==
  current_model.provider # MistralAi =>
    /\ cmd_q = <<>> /\ mpc # "http"
    /\ \A c \in CmdIds : net[c] = 0
    /\ (bpc = "loop" /\ send_prompt_q # <<>>) => ENABLED HandleSendPrompt
\* C9: when the current-model provider is not MistralAi, the dispatcher
\* answers a SendPrompt itself, in the step that dequeues it, with
\* ProviderNotImplemented carrying that provider's name; nothing is ever
\* forwarded to the adapter, and the arm is ready whenever a prompt is queued.
C9_ProviderNotImplemented == [](C9_NothingForwarded) /\ [][C9_Step]_vars
C9_Witness ==
  \E c \in Issued :
    /\ calls[c].kind = "SendPrompt"
    /\ reply[c].vals = <<Err("ProviderNotImplemented", <<"Anthropic">>)>>
    /\ bpc = "loop"

C10_Step ==
  \A c \in CmdIds :
    ( /\ mpc = "recv" /\ cmd_q # <<>> /\ cmd_q' = Tail(cmd_q)
      /\ Head(cmd_q).type = "SendPrompt" /\ Head(cmd_q).reply = c
      /\ Head(cmd_q).model \notin DOMAIN model_keys
      /\ master_key = NoKey )
    => /\ reply'[c] = [vals |-> <<Err("MissingApiKey", <<"Mistral:", calls[c].model>>)>>,
                       st |-> "closed"]
       /\ net' = net
       /\ mpc' = "recv"
C10_NoRequest ==
  \A c \in CmdIds :
    (Answered(c) /\ reply[c].vals[1].tag = "MissingApiKey") => net[c] = 0
\* C10: a SendPrompt the adapter takes up while it holds neither a key for
\* the prompt's model nor a master key is answered, in that step, with
\* MissingApiKey("Mistral:<model>"), and no network request is issued for it.
C10_MissingApiKey == [](C10_NoRequest) /\ [][C10_Step]_vars
C10_Witness ==
  \E c \in Issued :
    /\ calls[c] = [kind |-> "SendPrompt", model |-> "m2", res |-> Accepted]
    /\ reply[c].vals = <<Err("MissingApiKey", <<"Mistral:", "m2">>)>>
    /\ net[c] = 0

\* the dispatcher takes the head of its SetApiKeys queue in this step
DequeuesSetApiKeys ==
  /\ bpc = "loop"
  /\ set_api_keys_q # <<>>
  /\ set_api_keys_q' = Tail(set_api_keys_q)
\* the position of the last spec for (p, m) in a list of specs, 0 if none
LastSpecFor(keys, p, m) ==
  LET hits == {i \in DOMAIN keys : keys[i].provider = p /\ keys[i].model = m} IN
  IF hits = {} THEN 0 ELSE CHOOSE i \in hits : \A j \in hits : j <= i
C11_Step ==
  /\ api_keys' # api_keys => DequeuesSetApiKeys
  /\ DequeuesSetApiKeys =>
       LET keys == Head(set_api_keys_q).keys IN
       \A p \in Providers, m \in Models \cup {""} :
         LET i == LastSpecFor(keys, p, m) IN
         IF i # 0
           THEN /\ <<p, m>> \in DOMAIN api_keys'
                /\ api_keys'[<<p, m>>] = keys[i].key
           ELSE /\ <<p, m>> \in DOMAIN api_keys' <=> <<p, m>> \in DOMAIN api_keys
                /\ <<p, m>> \in DOMAIN api_keys => api_keys'[<<p, m>>] = api_keys[<<p, m>>]
\* C11: a SetApiKeys command leaves under every (provider, model) key the
\* value of the last spec of its list for that key, and leaves every key its
\* list does not name as it was (so a model-specific spec never touches the
\* entry with the empty model, and the reverse); no other step changes the
\* key store.
C11_LastWriteWins == [][C11_Step]_vars
C11_Witness ==
  /\ DOMAIN api_keys = {<<MistralAi, "">>, <<MistralAi, "m1">>}
  /\ api_keys[<<MistralAi, "">>] = "k1"
  /\ api_keys[<<MistralAi, "m1">>] = "k1"

\* the registered adapter holds a credential (master or model-specific)
AdapterHasKey == master_key # NoKey \/ DOMAIN model_keys # {}
\* C12 (as claimed): a GetModelLists reply is a success with no entries when
\* the adapter has no key, and a successful reply is a non-empty list when
\* the adapter has one.
C12_ListsKeyedAdapters ==
  \A c \in Issued :
    (calls[c].kind = "GetModelLists" /\ Answered(c)) =>
      LET v == reply[c].vals[1] IN
      /\ ~AdapterHasKey => (v.ok /\ v.msg = <<>>)
      /\ (AdapterHasKey /\ v.ok) => v.msg # <<>>

\* the dispatcher takes the head of its SetModelFallbackPreference queue
DequeuesSetModelFallbackPreference ==
  /\ bpc = "loop"
  /\ set_model_fallback_preference_q # <<>>
  /\ set_model_fallback_preference_q' = Tail(set_model_fallback_preference_q)
C13_Step ==
  /\ fallback_preferences' # fallback_preferences => DequeuesSetModelFallbackPreference
  /\ DequeuesSetModelFallbackPreference =>
       LET cmd == Head(set_model_fallback_preference_q) IN
       /\ fallback_preferences' = cmd.preferences
       /\ reply'[cmd.reply] = [vals |-> <<Ok("Unit", <<>>)>>, st |-> "closed"]
       /\ RouteProvider' = RouteProvider
\* C13: the SetModelFallbackPreference step is the only one that changes the
\* candidate list; after it the list is exactly the command's argument, the
\* reply is Ok(()) whatever the argument, and the provider the next
\* SendPrompt is routed to is the one it was before (the dispatcher keeps no
\* position in the list that the command could leave elsewhere than at its
\* start).
C13_ReplacesWholeList == [][C13_Step]_vars
C13_Witness ==
  /\ fallback_preferences = <<>>
  /\ \E c \in Issued : routed[c] = [done |-> TRUE, prefs |-> Pref12]
  /\ \E d \in Issued :
       /\ calls[d].kind = "SetModelFallbackPreference"
       /\ reply[d] = [vals |-> <<Ok("Unit", <<>>)>>, st |-> "closed"]

Min(a, b) == IF a <= b THEN a ELSE b
RECURSIVE Pow(_, _)
Pow(m, a) == IF a = 0 THEN 1 ELSE m * Pow(m, a - 1)

\* C14 (as claimed): on a sequence of n >= 1 candidates, after k calls of
\* next() since new() or reset() the cursor is min(k, n - 1).
C14_CursorClamped ==
  Len(providers) >= 1 => current_index = Min(nexts, Len(providers) - 1)

\* C15 (as claimed): while the candidate list is non-empty the cursor is a
\* valid index into it.
C15_CursorInRange ==
  providers # <<>> => (0 <= current_index /\ current_index < Len(providers))

\* C16 (as claimed): has_next() returns false exactly when the cursor is at
\* the last index of the (non-empty) candidate list.
C16_HasNextFalseAtLast ==
  (ret.op = "has_next" /\ providers # <<>>) =>
    (ret.val = FALSE <=> current_index = Len(providers) - 1)

C17_Step ==
  /\ ret'.op = "reset" => (current_index' = 0 /\ providers' = providers)
  /\ ret'.op # "reset" => current_index' >= current_index
\* C17: reset() leaves the cursor at 0 whatever it was (also past the end of
\* the list) and does not touch the candidate list; every other operation
\* leaves the cursor where it was or further on.
C17_ResetToZero == [][C17_Step]_vars
C17_Witness ==
  /\ ret.op = "reset"
  /\ providers # <<>>
  /\ ret.arg > Len(providers)
  /\ current_index = 0

C18_ExactBelowF32Limit ==
  (ret.op = "backoff_for_attempt"
     /\ policy.initial_backoff * Pow(policy.backoff_multiplier, ret.arg) < F32Exact) =>
    ret.val = policy.initial_backoff * Pow(policy.backoff_multiplier, ret.arg)
AdapterTakes(type) ==
  /\ mpc = "recv"
  /\ cmd_q # <<>>
  /\ Head(cmd_q).type = type
  /\ cmd_q' = Tail(cmd_q)
\* the adapter starts a request for call c carrying the given key
RequestsWith(c, key) ==
  /\ mpc' = "http"
  /\ cur'.reply = c
  /\ cur'.key = key
  /\ net'[c] = net[c] + 1
  /\ reply'[c] = reply[c]
C19_Step ==
  AdapterTakes("SendPrompt") =>
    LET c == Head(cmd_q).reply
        M == Head(cmd_q).model
    IN CASE M \in DOMAIN model_keys -> RequestsWith(c, model_keys[M])
         [] M \notin DOMAIN model_keys /\ master_key # NoKey ->
              RequestsWith(c, master_key)
         [] OTHER ->
              /\ reply'[c] = [vals |-> <<Err("MissingApiKey", <<"Mistral:", M>>)>>,
                              st |-> "closed"]
              /\ net' = net
              /\ mpc' = "recv"
\* C19: when the adapter takes a SendPrompt for model M, the request carries
\* the key stored for M if there is one (with or without a master key),
\* otherwise the master key if set; with neither it answers
\* MissingApiKey("Mistral:M") and sends nothing.  A key stored for another
\* model is therefore never the one used for M.
C19_KeyResolution == [][C19_Step]_vars
C19_Witness ==
  /\ mpc = "http"
  /\ cur.type = "SendPrompt"
  /\ cur.model = "m1"
  /\ DOMAIN model_keys = {"m1", "m2"}
  /\ master_key # NoKey
  /\ model_keys["m1"] # master_key
  /\ model_keys["m2"] # model_keys["m1"]
  /\ cur.key = model_keys["m1"]

C20_Step ==
  (AdapterTakes("GetModels") /\ master_key = NoKey) =>
    LET c == Head(cmd_q).reply IN
    /\ reply'[c] = [vals |-> <<Err("MissingApiKey", <<"Mistral (master)">>)>>,
                    st |-> "closed"]
    /\ net' = net
    /\ mpc' = "recv"
\* C20: when the adapter takes a GetModels with no master key set, it answers
\* MissingApiKey and sends no request, whatever model-specific keys it holds.
C20_GetModelsNeedsMaster == [][C20_Step]_vars
C20_Witness ==
  \E c, d \in Issued :
    /\ c < d
    /\ calls[c].kind = "SetApiKey" /\ calls[c].model # NoKey
    /\ Answered(c)
    /\ calls[d].kind = "GetModels"
    /\ reply[d] = [vals |-> <<Err("MissingApiKey", <<"Mistral (master)">>)>>,
                   st |-> "closed"]
    /\ net[d] = 0
    /\ master_key = NoKey
    /\ DOMAIN model_keys # {}

\* a map agrees with another one everywhere except at one key
SameExceptAt(new, old, k) ==
  /\ DOMAIN new = DOMAIN old \cup {k}
  /\ \A x \in DOMAIN old : x # k => new[x] = old[x]
C21_Step ==
  /\ AdapterTakes("SetApiKey") =>
       LET cmd == Head(cmd_q) IN
       /\ reply'[cmd.reply] = [vals |-> <<Ok("Unit", <<>>)>>, st |-> "closed"]
       /\ IF cmd.model = NoKey
            THEN master_key' = cmd.key /\ model_keys' = model_keys
            ELSE /\ master_key' = master_key
                 /\ SameExceptAt(model_keys', model_keys, cmd.model)
                 /\ model_keys'[cmd.model] = cmd.key
  /\ master_key' # master_key =>
       (AdapterTakes("SetApiKey") /\ Head(cmd_q).model = NoKey)
  /\ model_keys' # model_keys =>
       (AdapterTakes("SetApiKey") /\ Head(cmd_q).model # NoKey)
\* C21: the adapter's SetApiKey step replies Ok(()) and stores the key: with
\* no model it becomes the master key and the model keys are untouched; with
\* a model M it becomes M's key and the master key and the other models'
\* keys are untouched.  No other step changes a key, so a client created
\* without a key has no master key until such a command is processed.
C21_StoresKey == [][C21_Step]_vars
C21_Witness ==
  /\ master_key \in NewKeys
  /\ DOMAIN model_keys = {"m1"}
  /\ model_keys["m1"] # master_key
  /\ \A c \in Issued :
       /\ calls[c].kind = "SetApiKey"
       /\ reply[c] = [vals |-> <<Ok("Unit", <<>>)>>, st |-> "closed"]
  /\ Len(calls) = MaxCmds

\* C22 (as claimed): once the backend, and with it every command sender, is
\* dropped with no Shutdown ever sent, the dispatcher stays in its loop: it
\* neither exits nor fails.
C22_ParkedForever ==
  (hand = "dropped" /\ \A c \in Issued : calls[c].kind # "Shutdown") =>
    bpc = "loop"

\* the call made by shutdown(), once made
ShutdownCall == Len(calls)
ShutdownReturned ==
  /\ hand = "dropped"
  /\ calls # <<>>
  /\ calls[ShutdownCall].kind = "Shutdown"
C23_OnlyOk ==
  ShutdownReturned => calls[ShutdownCall].res = Ok("Unit", <<>>)
C23_Returns == (hand = "shutting") ~> ShutdownReturned
\* C23: shutdown() on a backend made by AllmBackend::new always returns, and
\* what it returns is Ok(()), never Timeout nor "already shutdown", whatever
\* is queued or in flight when it is called.
C23_ShutdownReturnsOk == [](C23_OnlyOk) /\ C23_Returns
C23_Witness ==
  /\ ShutdownReturned
  /\ calls[ShutdownCall].res = Ok("Unit", <<>>)
  /\ mpc = "http"
  /\ \E c \in Issued : calls[c].kind = "SetApiKeys" /\ ClosedEmpty(c)

\* the values a completed request of the given command type can produce
Outcomes(type) ==
  IF type = "SendPrompt" THEN {ChatResult(r) : r \in ChatResponses}
                         ELSE {ModelsResult(r) : r \in ModelsResponses}
C24_AtMostOneRequest == \A c \in CmdIds : net[c] <= 1
C24_Step ==
  (mpc = "http" /\ (mpc' # mpc \/ net' # net
                      \/ reply'[cur.reply] # reply[cur.reply])) =>
    /\ \E v \in Outcomes(cur.type) :
         reply'[cur.reply] = [vals |-> <<v>>, st |-> "closed"]
    /\ net' = net
    /\ mpc' = "recv"
\* C24: no command makes the adapter issue more than one network request,
\* and the step that ends the request writes its outcome, success or error,
\* to the command's reply conduit and goes back to the channel.
C24_NoRetry == [](C24_AtMostOneRequest) /\ [][C24_Step]_vars
C24_Witness ==
  \E c, d \in Issued :
    /\ calls[c].kind = "SendPrompt" /\ net[c] = 1
    /\ reply[c] = [vals |-> <<ChatResult("TransportFailure")>>, st |-> "closed"]
    /\ calls[d].kind = "GetModels" /\ net[d] = 1
    /\ reply[d] = [vals |-> <<ModelsResult("TransportFailure")>>, st |-> "closed"]

\* the command of call c waits in the adapter's channel
InAdapterQueue(c) ==
  \E i \in DOMAIN cmd_q : cmd_q[i].type # "Shutdown" /\ cmd_q[i].reply = c
\* calls with a request issued and no reply written yet
InFlight == {c \in Issued : net[c] > 0 /\ reply[c].vals = <<>> /\ reply[c].st = "open"}
C25_Step ==
  (cmd_q # <<>> /\ cmd_q' = Tail(cmd_q)) =>
    /\ InFlight = {}
    /\ \A c \in Issued :
         (calls[c].res.ok /\ ~InAdapterQueue(c)) => reply[c].st = "closed"
\* C25: in every state the adapter has at most one network call in flight,
\* and when it takes a command from its channel every command it took
\* before has had its reply written.
C25_OneAtATime == [](Cardinality(InFlight) <= 1) /\ [][C25_Step]_vars
C25_Witness ==
  /\ Cardinality(InFlight) = 1
  /\ Len(cmd_q) = 2
  /\ \A i \in DOMAIN cmd_q : cmd_q[i].type \in {"SendPrompt", "GetModels"}

\* the dispatcher takes the head of queue q in this step
ArmTaken(q) == bpc = "loop" /\ q # <<>> /\ q' = Tail(q)
\* the conduit of call c after a reply v was sent to it: the value is there
\* unless the receiver was gone, and the sender is consumed either way
Written(c, v) ==
  /\ reply'[c].st = "closed"
  /\ reply'[c].vals = (IF c \in abandoned THEN <<>> ELSE <<v>>)
C26_Dispatcher ==
  /\ ArmTaken(set_api_keys_q) =>
       LET cmd == Head(set_api_keys_q) IN
       /\ api_keys' = InsertKeys(api_keys, cmd.keys)
       /\ Written(cmd.reply, Ok("Unit", <<>>))
       /\ bpc' = "loop"
  /\ ArmTaken(get_model_lists_q) =>
       /\ Written(Head(get_model_lists_q).reply, Ok("ModelList", <<>>))
       /\ bpc' = "loop"
  /\ ArmTaken(set_model_fallback_preference_q) =>
       LET cmd == Head(set_model_fallback_preference_q) IN
       /\ fallback_preferences' = cmd.preferences
       /\ Written(cmd.reply, Ok("Unit", <<>>))
       /\ bpc' = "loop"
C26_Adapter ==
  /\ (AdapterTakes("SendPrompt") /\ get_api_key(Head(cmd_q).model).ok) =>
       RequestsWith(Head(cmd_q).reply, get_api_key(Head(cmd_q).model).msg[1])
  /\ (AdapterTakes("SendPrompt") /\ ~get_api_key(Head(cmd_q).model).ok) =>
       /\ Written(Head(cmd_q).reply, get_api_key(Head(cmd_q).model))
       /\ mpc' = "recv"
  /\ (mpc = "http" /\ mpc' # "http") =>
       /\ \E v \in Outcomes(cur.type) : Written(cur.reply, v)
       /\ mpc' = "recv"
  /\ (mpc' = "done" /\ mpc # "done") => (cmd_q = <<>> /\ ~mtx)
C26_Step == C26_Dispatcher /\ C26_Adapter
\* C26: when the receiver of a reply conduit was dropped, the dispatcher
\* arm or adapter handler still performs the command (keys stored, list
\* replaced, request issued), the value it sends is discarded and the
\* conduit closes empty, the task stays in its loop, and under fair
\* scheduling every conduit opened later is still answered or closed.
C26_AbandonHarmless == [][C26_Step]_vars /\ C2_NoCallerHangs
C26_Witness ==
  \E c, d \in Issued :
    /\ c < d
    /\ c \in abandoned /\ calls[c].kind = "SendPrompt" /\ net[c] = 1
    /\ ClosedEmpty(c)
    /\ d \notin abandoned /\ calls[d].kind = "SendPrompt"
    /\ reply[d].vals = <<ChatResult("Choices")>>
    /\ \E e \in abandoned :
         /\ calls[e].kind = "SetApiKeys" /\ ClosedEmpty(e)
         /\ DOMAIN api_keys # {}

\* the five dispatcher queues
DispatcherQueues ==
  << send_prompt_q, set_api_keys_q, get_model_lists_q, kill_process_q,
     set_model_fallback_preference_q >>
\* the commands of a queue wait in the order of their submission
InSubmissionOrder(q) == \A i, j \in DOMAIN q : i < j => q[i].reply < q[j].reply
C27_Ordered ==
  /\ \A k \in DOMAIN DispatcherQueues : InSubmissionOrder(DispatcherQueues[k])
  /\ \A c, d \in Issued :
       (c < d /\ calls[c].kind = calls[d].kind /\ AcceptedCall(d)
          /\ InDispatcherQueue(c)) => InDispatcherQueue(d)
C27_Step ==
  \A c \in Issued :
    (bpc = "loop" /\ InDispatcherQueue(c) /\ ~InDispatcherQueue(c)') =>
      \A b \in Issued :
        (b < c /\ calls[b].kind = calls[c].kind) => ~InDispatcherQueue(b)
\* C27: each dispatcher queue holds its commands in submission order and
\* the dispatcher takes a command only when no command submitted earlier
\* on the same queue is still waiting; across queues there is no such
\* order (the witness has a later command answered while an earlier one on
\* another queue still waits).
C27_PerQueueFifo == [](C27_Ordered) /\ [][C27_Step]_vars
C27_Witness ==
  \E b, c, d \in Issued :
    /\ b < c /\ c < d
    /\ calls[b].kind = "SetApiKeys" /\ InQ(set_api_keys_q, b)
    /\ calls[c].kind = "GetModelLists" /\ Answered(c)
    /\ calls[d].kind = "GetModelLists" /\ InQ(get_model_lists_q, d)

C28_Stopped ==
  mpc = "done" =>
    /\ cmd_q = <<>>
    /\ \A c \in Issued : reply[c].st = "closed"
\* the adapter takes a Shutdown from the head of its channel in this step
TakesShutdown ==
  /\ mpc = "recv"
  /\ cmd_q # <<>>
  /\ Head(cmd_q).type = "Shutdown"
  /\ Len(cmd_q') < Len(cmd_q)
C28_Step ==
  /\ TakesShutdown =>
       /\ mpc' = "done"
       /\ \A c \in Issued :
            IF InAdapterQueue(c)
              THEN ClosedEmpty(c)' /\ net'[c] = 0
              ELSE calls[c].res.ok => (Answered(c) /\ reply'[c] = reply[c])
  /\ mpc = "done" =>
       /\ mpc' = "done"
       /\ \A c \in Issued : reply'[c] = reply[c]
       /\ UNCHANGED << net, master_key, model_keys, cur >>
\* C28: the step that takes a Shutdown from the channel ends the loop;
\* every command taken before it has been answered by then, every command
\* still in the channel has its conduit closed without a value and without
\* a request; afterwards no conduit, key or request count changes.
C28_NothingAfterShutdown == [](C28_Stopped) /\ [][C28_Step]_vars
C28_Witness ==
  \E c, d \in Issued :
    /\ mpc = "done"
    /\ c < d
    /\ calls[c].kind = "SendPrompt" /\ reply[c].vals = <<ChatResult("Choices")>>
    /\ calls[d].res.ok /\ ClosedEmpty(d) /\ net[d] = 0

C29_Selection == current_model = [provider |-> MistralAi, name |-> DefaultModelName]
C29_NotTaken ==
  \A c \in CmdIds : \A i \in DOMAIN reply[c].vals :
    reply[c].vals[i].tag # "ProviderNotImplemented"
C29_Forwards ==
  \A c \in CmdIds :
    (DequeuesSendPrompt /\ Head(send_prompt_q).reply = c) =>
      /\ cmd_q' = Append(cmd_q, [type |-> "SendPrompt",
                                 prompt |-> Head(send_prompt_q).prompt,
                                 model |-> Head(send_prompt_q).model,
                                 reply |-> c])
      /\ reply'[c] = [vals |-> <<>>, st |-> "open"]
\* C29: the dispatcher's current model is (MistralAi, default model) in
\* every reachable state, no reply is a ProviderNotImplemented error, and
\* every SendPrompt the dispatcher takes goes to the Mistral adapter's
\* channel with the caller's prompt, model and reply conduit, the conduit
\* left untouched.
C29_AlwaysMistral == [](C29_Selection /\ C29_NotTaken) /\ [][C29_Forwards]_vars
C29_Witness ==
  \E c \in Issued :
    /\ calls[c].kind = "SendPrompt" /\ calls[c].model = "m2"
    /\ routed[c] = [done |-> TRUE, prefs |-> Pref12]
    /\ DOMAIN api_keys # {}
    /\ mpc = "http" /\ cur.reply = c /\ cur.model = "m2" /\ cur.prompt = "p1"

C30_AdapterKeysFrozen == master_key' = master_key /\ model_keys' = model_keys
C30_CreationKeyUsed ==
  /\ model_keys = << >>
  /\ mpc = "http" => cur.key = master_key
  /\ \A c \in Issued :
       (calls[c].kind = "SendPrompt" /\ net[c] > 0) => master_key # NoKey
C30_NoKeyNoPrompt ==
  master_key = NoKey =>
    \A c \in Issued :
      (calls[c].kind = "SendPrompt" /\ Answered(c)) =>
        reply[c].vals = <<Err("MissingApiKey", <<"Mistral:", calls[c].model>>)>>
\* C30: no step of the engine changes the adapter's master key or its
\* model keys; every request the adapter issues carries the key the backend
\* was created with; and in a backend created without a key every answered
\* SendPrompt holds MissingApiKey, whatever SetApiKeys commands the
\* dispatcher has processed.
C30_KeysNeverReachAdapter ==
  [](C30_CreationKeyUsed /\ C30_NoKeyNoPrompt) /\ [][C30_AdapterKeysFrozen]_vars
C30_Witness ==
  \E c, d \in Issued :
    /\ c < d
    /\ calls[c].kind = "SetApiKeys" /\ reply[c].vals = <<Ok("Unit", <<>>)>>
    /\ <<MistralAi, "">> \in DOMAIN api_keys
    /\ calls[d].kind = "SendPrompt"
    /\ reply[d].vals = <<Err("MissingApiKey", <<"Mistral:", calls[d].model>>)>>
    /\ master_key = NoKey

\* the dispatcher has taken the SendPrompt of call c and passed it on
Forwarded(c) == calls[c].kind = "SendPrompt" /\ AcceptedCall(c) /\ routed[c].done
\* the reply of call c has been written
ReplyWritten(c) == Answered(c) /\ reply[c].st = "closed"
C31_InOrder ==
  \A c, d \in Issued :
    (c < d /\ Forwarded(c) /\ Forwarded(d)) =>
      /\ (net[d] > 0 \/ reply[d].st = "closed") => ReplyWritten(c)
      /\ InAdapterQueue(c) => InAdapterQueue(d)
C31_Step ==
  \A c, d \in Issued :
    (c < d /\ Forwarded(c)' /\ Forwarded(d)' /\ net'[d] > net[d]) =>
      ReplyWritten(c)
\* C31: of two SendPrompts accepted in that order and both forwarded, the
\* later one's request is started only in a state where the earlier one's
\* reply is already written, the later one never leaves the adapter's
\* channel before the earlier one, and so the later reply is never written
\* first.
C31_EndToEndFifo == [](C31_InOrder) /\ [][C31_Step]_vars
C31_Witness ==
  \E c, d \in Issued :
    /\ c < d /\ Forwarded(c) /\ Forwarded(d)
    /\ reply[c] = [vals |-> <<ChatResult("NonSuccessStatus")>>, st |-> "closed"]
    /\ mpc = "http" /\ cur.reply = d /\ net[d] = 1 /\ reply[d].st = "open"

C32_AdapterAlive ==
  /\ bpc = "loop" => (mtx /\ mpc \in {"recv", "http"})
  /\ \A i \in DOMAIN cmd_q : cmd_q[i].type = "SendPrompt"
  /\ \A c \in Issued :
       (Forwarded(c) /\ reply[c].st = "closed") => Answered(c)
C32_Step ==
  \A c \in CmdIds :
    (DequeuesSendPrompt /\ Head(send_prompt_q).reply = c) =>
      /\ InAdapterQueue(c)'
      /\ reply'[c].st = "open"
\* C32: while the dispatcher is in its loop it holds the adapter's sender
\* and the adapter is in its loop; the adapter's channel never holds a
\* Shutdown; every SendPrompt the dispatcher takes is in the adapter's
\* channel after the step with its conduit open; and the conduit of a
\* forwarded SendPrompt never closes without a value.
C32_ForwardNeverFails == [](C32_AdapterAlive) /\ [][C32_Step]_vars
C32_Witness ==
  \E c, d \in Issued :
    /\ bpc = "loop" /\ mpc = "recv"
    /\ Forwarded(c) /\ ReplyWritten(c)
    /\ Forwarded(d) /\ InAdapterQueue(d) /\ reply[d].st = "open"

C33_AllAnswered ==
  mpc = "done" =>
    /\ bpc = "done"
    /\ \A c \in Issued : Forwarded(c) => ReplyWritten(c)
C33_Step ==
  (mpc' = "done" /\ mpc # "done") =>
    /\ bpc = "done" /\ ~mtx
    /\ mpc = "recv" /\ cmd_q = <<>>
\* C33: once the dispatcher has taken a Shutdown the adapter eventually
\* ends; it ends only from its receive position with its channel empty
\* and the dispatcher's state dropped, and when it has ended every
\* SendPrompt the dispatcher forwarded has its reply value.
C33_AdapterDrains ==
  /\ [](C33_AllAnswered)
  /\ [][C33_Step]_vars
  /\ (bpc # "loop") ~> (mpc = "done")
C33_Witness ==
  \E c, k \in Issued :
    /\ calls[k].kind = "Shutdown" /\ ReplyWritten(k)
    /\ Forwarded(c) /\ net[c] = 1
    /\ reply[c] = [vals |-> <<ChatResult("Choices")>>, st |-> "closed"]
    /\ bpc = "done" /\ mpc = "done"
    /\ \E d \in Issued : d # c /\ Forwarded(d) /\ ReplyWritten(d)

C34_NoneIffPastEnd ==
  ret.op \in {"next", "current"} =>
    (ret.val = None <=> current_index >= Len(providers))
C34_Step ==
  (ret.op = "has_next" /\ ret.val = TRUE /\ ret'.op = "next") =>
    /\ Get(providers, current_index) # None
    /\ ret'.val # None
    /\ ret'.val = Get(providers, current_index + 1)
    /\ current_index' = current_index + 1
\* C34: a next() that directly follows a has_next() that returned true
\* returns Some of the list element one position after the one current()
\* stood on; and whenever next() or current() has just returned, the value
\* is None exactly if the cursor is at or past the length of the list.
C34_HasNextThenNext == [](C34_NoneIffPastEnd) /\ [][C34_Step]_vars
C34_Witness ==
  /\ ret = [op |-> "next", arg |-> 0, val |-> Some(<<Anthropic, "m1">>)]
  /\ Len(providers) = 3
  /\ current_index = 2
  /\ nexts = 2

====
